---- MODULE Spec2Model ----
(***************************************************************************)
(* Model of src/amount.rs: the Amount value type, a u32 count of           *)
(* hundredths built from a decimal string through f32, added to and        *)
(* multiplied in place, compared, hashed and displayed.                    *)
(*                                                                         *)
(* Numbers.  TLC's integers are 32-bit signed, so a u32 is kept as its     *)
(* four bytes, least significant first, and wider intermediate values as   *)
(* byte sequences of any length (a "Big").  An f32 is kept as sign,        *)
(* 24-bit significand m and exponent e, standing for (-1)^neg * m * 2^e.   *)
(* Texts are sequences of one-character strings.                           *)
(***************************************************************************)
EXTENDS Integers, Sequences, FiniteSets, TLC

\* ------------------------------------------------------------ bounds
\* Longest text drawn exhaustively over Alphabet as a constructor input.
MaxLen == 4
\* Most += and *= applied in one run of the composed specification.
MaxOps == 2

\* ------------------------------------------------------- byte numbers
Pow2(k) == 2 ^ k

\* The width, in bytes, of the storage type u32 of Amount.as_int.
U32Bytes == 4

Max(a, b) == IF a >= b THEN a ELSE b

\* A Big without its high zero bytes.
RECURSIVE Trim(_)
Trim(n) == IF Len(n) > 0 /\ n[Len(n)] = 0 THEN Trim(SubSeq(n, 1, Len(n) - 1)) ELSE n

\* The Big of a TLC integer k >= 0.
RECURSIVE FromInt(_)
FromInt(k) == IF k = 0 THEN <<>> ELSE <<k % 256>> \o FromInt(k \div 256)

\* The TLC integer of a Big below 2^31.
RECURSIVE ToInt(_)
ToInt(n) == IF Len(n) = 0 THEN 0 ELSE n[1] + 256 * ToInt(Tail(n))

ByteAt(n, i) == IF i <= Len(n) THEN n[i] ELSE 0

RECURSIVE AddFrom(_, _, _, _)
AddFrom(a, b, i, carry) ==
    IF i > Max(Len(a), Len(b))
    THEN IF carry = 0 THEN <<>> ELSE <<carry>>
    ELSE LET s == ByteAt(a, i) + ByteAt(b, i) + carry
         IN  <<s % 256>> \o AddFrom(a, b, i + 1, s \div 256)

\* a + b, exact.
BigAdd(a, b) == Trim(AddFrom(a, b, 1, 0))

RECURSIVE MulSmallFrom(_, _, _, _)
MulSmallFrom(a, k, i, carry) ==
    IF i > Len(a)
    THEN FromInt(carry)
    ELSE LET p == a[i] * k + carry
         IN  <<p % 256>> \o MulSmallFrom(a, k, i + 1, p \div 256)

\* a * k for a TLC integer 0 <= k < 2^22, exact.
BigMulSmall(a, k) == Trim(MulSmallFrom(a, k, 1, 0))

\* a * 256^n.
ShiftBytes(a, n) == IF Len(a) = 0 THEN a ELSE [i \in 1..n |-> 0] \o a

RECURSIVE MulFrom(_, _, _)
MulFrom(a, b, i) ==
    IF i > Len(b)
    THEN <<>>
    ELSE BigAdd(ShiftBytes(BigMulSmall(a, b[i]), i - 1), MulFrom(a, b, i + 1))

\* a * b, exact.
BigMul(a, b) == MulFrom(Trim(a), Trim(b), 1)

\* Long division of a by a TLC integer 0 < d < 2^22, from the high byte
\* down: [q |-> quotient, r |-> remainder].
RECURSIVE DivFrom(_, _, _, _)
DivFrom(a, d, i, rem) ==
    IF i = 0
    THEN [q |-> <<>>, r |-> rem]
    ELSE LET cur  == rem * 256 + a[i]
             rest == DivFrom(a, d, i - 1, cur % d)
         IN  [q |-> Append(rest.q, cur \div d), r |-> rest.r]

BigDivSmall(a, d) ==
    LET res == DivFrom(a, d, Len(a), 0) IN [q |-> Trim(res.q), r |-> res.r]

\* a * 2^k.
ShiftLeft(a, k) == ShiftBytes(BigMulSmall(a, Pow2(k % 8)), k \div 8)

\* A Big as the four bytes of a u32 (the value modulo 2^32).
ToU32(n) == [i \in 1..U32Bytes |-> ByteAt(n, i)]

\* Whether a Big fits the u32 range.
FitsU32(n) == Len(Trim(n)) <= U32Bytes

\* The u32 of a TLC integer 0 <= k < 2^31.
U32(k) == ToU32(FromInt(k))

\* u32::MAX, 2^32 - 1.
U32Max == [i \in 1..U32Bytes |-> 255]

\* ------------------------------------------------------------- texts
DigitChars == <<"0", "1", "2", "3", "4", "5", "6", "7", "8", "9">>

IsDigit(c) == \E d \in 1..Len(DigitChars) : DigitChars[d] = c

DigitVal(c) == (CHOOSE d \in 1..Len(DigitChars) : DigitChars[d] = c) - 1

AllDigits(t) == \A i \in 1..Len(t) : IsDigit(t[i])

\* The number a run of decimal digits writes (below 2^31).
RECURSIVE DigitsToInt(_)
DigitsToInt(t) ==
    IF Len(t) = 0
    THEN 0
    ELSE 10 * DigitsToInt(SubSeq(t, 1, Len(t) - 1)) + DigitVal(t[Len(t)])

\* The decimal digits of a Big, most significant first, "0" for zero:
\* what "{}" writes for an unsigned integer.
RECURSIVE DecimalDigits(_)
DecimalDigits(n) ==
    LET d == BigDivSmall(n, 10)
    IN  IF Len(d.q) = 0
        THEN <<DigitChars[d.r + 1]>>
        ELSE Append(DecimalDigits(d.q), DigitChars[d.r + 1])

\* --------------------------------------------------------------- f32
\* An f32 is [neg, m, e]: zero (m = 0) or 2^23 <= m < 2^24.  Inputs stay
\* within the normal range, so no infinity, NaN or subnormal arises.
F32Zero(neg) == [neg |-> neg, m |-> 0, e |-> 0]

\* Number of significant bits of a TLC integer 0 <= k < 2^31.
IntBits(k) == Cardinality({b \in 0..30 : Pow2(b) <= k})

\* Round to nearest, ties to even: the f32 nearest (-1)^neg * (t + f) * 2^e
\* where t has 25 bits (the significand and the round bit), 0 <= f < 1
\* and sticky says f > 0.
RoundBits(neg, t, sticky, e) ==
    LET m0 == t \div 2
        up == t % 2 = 1 /\ (sticky \/ m0 % 2 = 1)
        m1 == IF up THEN m0 + 1 ELSE m0
    IN  IF m1 = Pow2(24)
        THEN [neg |-> neg, m |-> Pow2(23), e |-> e + 2]
        ELSE [neg |-> neg, m |-> m1, e |-> e + 1]

\* The f32 nearest (-1)^neg * n * 2^e for a TLC integer 0 <= n < 2^31.
F32OfInt(neg, n, e) ==
    LET L == IntBits(n)
    IN  IF n = 0 THEN F32Zero(neg)
        ELSE IF L <= 24
        THEN [neg |-> neg, m |-> n * Pow2(24 - L), e |-> e - (24 - L)]
        ELSE LET unit == Pow2(L - 25)
             IN  RoundBits(neg, n \div unit, n % unit # 0, e + (L - 25))

\* Binary expansion of t + r/d (0 <= r < d < 2^30), one bit a step, until
\* the integer part has 25 bits: [t, r, s] with t + r/d the value * 2^s.
RECURSIVE Expand(_, _, _, _)
Expand(t, r, d, s) ==
    IF t >= Pow2(24)
    THEN [t |-> t, r |-> r, s |-> s]
    ELSE IF 2 * r >= d
         THEN Expand(2 * t + 1, 2 * r - d, d, s + 1)
         ELSE Expand(2 * t, 2 * r, d, s + 1)

\* The f32 nearest the decimal w + f / 10^k (w < 2^31, k <= 9): what a
\* correctly rounding parser returns.
F32OfDecimal(neg, w, f, k) ==
    LET L == IntBits(w)
    IN  IF w = 0 /\ f = 0 THEN F32Zero(neg)
        ELSE IF L > 25
        THEN LET unit == Pow2(L - 25)
             IN  RoundBits(neg, w \div unit, w % unit # 0 \/ f # 0, L - 25)
        ELSE LET x == Expand(w, f, 10 ^ k, 0)
             IN  RoundBits(neg, x.t, x.r # 0, -x.s)

\* The parts of a text under the plain decimal grammar: an optional
\* sign, then digits with at most one dot and at least one digit.
Decimal(s) ==
    LET signed == Len(s) > 0 /\ s[1] \in {"+", "-"}
        body   == IF signed THEN Tail(s) ELSE s
        dots   == {i \in 1..Len(body) : body[i] = "."}
        dot    == IF dots = {} THEN Len(body) + 1 ELSE CHOOSE i \in dots : TRUE
        int    == SubSeq(body, 1, dot - 1)
        frac   == SubSeq(body, dot + 1, Len(body))
    IN  [valid |-> /\ Cardinality(dots) <= 1
                   /\ AllDigits(int) /\ AllDigits(frac)
                   /\ Len(int) + Len(frac) >= 1,
         neg   |-> Len(s) > 0 /\ s[1] = "-",
         int   |-> int,
         frac  |-> frac]

\* str::parse::<f32>: the correctly rounded f32 of a text of the plain
\* decimal grammar; [ok |-> FALSE] is Err(ParseFloatError).
ParseF32(s) ==
    LET d == Decimal(s)
    IN  IF ~d.valid
        THEN [ok |-> FALSE]
        ELSE [ok  |-> TRUE,
              val |-> F32OfDecimal(d.neg, DigitsToInt(d.int), DigitsToInt(d.frac),
                                   Len(d.frac))]

\* A significand without its trailing zero bits, and their number.
TrailingZeros(m) == Cardinality({b \in 1..23 : m % Pow2(b) = 0})

\* f32 * f32, correctly rounded.  The product of the significands is
\* taken without their trailing zero bits and must stay below 2^31, as
\* it does when one factor is a small integer such as 100.0.
F32Mul(a, b) ==
    LET neg == a.neg # b.neg
        za  == TrailingZeros(a.m)
        zb  == TrailingZeros(b.m)
    IN  IF a.m = 0 \/ b.m = 0
        THEN F32Zero(neg)
        ELSE F32OfInt(neg, (a.m \div Pow2(za)) * (b.m \div Pow2(zb)), a.e + za + b.e + zb)

\* f32::round: to the nearest integer, halves away from zero.
F32Round(f) ==
    IF f.m = 0 \/ f.e >= 0 THEN f
    ELSE IF -f.e > 24 THEN F32Zero(f.neg)
    ELSE LET unit == Pow2(-f.e)
             whole == f.m \div unit
             part  == f.m % unit
         IN  F32OfInt(f.neg, IF 2 * part >= unit THEN whole + 1 ELSE whole, 0)

\* `f as u32`: toward zero, saturating at 0 and u32::MAX; the cast has no
\* failing outcome.
F32AsU32(f) ==
    IF f.neg \/ f.m = 0 THEN U32(0)
    ELSE IF f.e > 8 THEN U32Max
    ELSE IF f.e >= 0 THEN ToU32(ShiftLeft(FromInt(f.m), f.e))
    ELSE IF -f.e >= 24 THEN U32(0)
    ELSE U32(f.m \div Pow2(-f.e))

\* ------------------------------------------------------------ Amount
\* Amount::new.
new == [as_int |-> U32(0)]

\* Mutant of new_from_str: a text that does not parse counts as 0.0
\* (unwrap_or in place of the panic).
new_from_str_lenient(input_string) ==
    LET float_from_input    == ParseF32(input_string)
        float_res           == IF float_from_input.ok THEN float_from_input.val
                               ELSE F32Zero(FALSE)
        float_times_hundred == F32Mul(float_res, F32OfInt(FALSE, 100, 0))
        int_res             == F32AsU32(F32Round(float_times_hundred))
    IN  [panic |-> FALSE, value |-> [as_int |-> int_res]]

\* Amount::new_from_str: [panic |-> TRUE] when the text does not parse,
\* else the Amount in value.
new_from_str(input_string) ==
    LET float_from_input    == ParseF32(input_string)
        float_res           == float_from_input.val
        float_times_hundred == F32Mul(float_res, F32OfInt(FALSE, 100, 0))
        int_res             == F32AsU32(F32Round(float_times_hundred))
    IN  IF ~float_from_input.ok
        THEN [panic |-> TRUE, value |-> new]
        ELSE [panic |-> FALSE, value |-> [as_int |-> int_res]]

\* Mutant of add_assign: `=` written for `+=`.
add_assign_overwrite(self, other_amount, checks) ==
    [panic |-> FALSE, value |-> [as_int |-> other_amount.as_int]]

\* `self.as_int += other_amount.as_int`: with overflow checks (a debug
\* build) an overflowing sum panics, without them (a release build) it
\* wraps modulo 2^32.
add_assign(self, other_amount, checks) ==
    LET sum == BigAdd(self.as_int, other_amount.as_int)
    IN  IF checks /\ ~FitsU32(sum)
        THEN [panic |-> TRUE, value |-> self]
        ELSE [panic |-> FALSE, value |-> [as_int |-> ToU32(sum)]]

\* Mutant of mul_assign: `+=` written for `*=`.
mul_assign_added(self, multiplier, checks) ==
    LET sum == BigAdd(self.as_int, multiplier)
    IN  IF checks /\ ~FitsU32(sum)
        THEN [panic |-> TRUE, value |-> self]
        ELSE [panic |-> FALSE, value |-> [as_int |-> ToU32(sum)]]

\* `self.as_int *= multiplier`, overflowing as the sum does.
mul_assign(self, multiplier, checks) ==
    LET product == BigMul(self.as_int, multiplier)
    IN  IF checks /\ ~FitsU32(product)
        THEN [panic |-> TRUE, value |-> self]
        ELSE [panic |-> FALSE, value |-> [as_int |-> ToU32(product)]]

\* Mutant of fmt: the fraction padded to two digits, "{}.{:02}".
fmt_padded(self) ==
    LET division == BigDivSmall(self.as_int, 100)
        quot_x   == ToU32(division.q)
        rem_x    == U32(division.r)
        digits   == DecimalDigits(rem_x)
    IN  DecimalDigits(quot_x) \o <<".">>
            \o (IF Len(digits) < 2 THEN <<"0">> ELSE <<>>) \o digits

\* Mutant of fmt: the separator left out, "{}{}".
fmt_nodot(self) ==
    LET division == BigDivSmall(self.as_int, 100)
        quot_x   == ToU32(division.q)
        rem_x    == U32(division.r)
    IN  DecimalDigits(quot_x) \o DecimalDigits(rem_x)

\* Display::fmt: "{}.{}" of the quotient and the remainder by 100.
fmt(self) ==
    LET division == BigDivSmall(self.as_int, 100)
        quot_x   == ToU32(division.q)
        rem_x    == U32(division.r)
    IN  DecimalDigits(quot_x) \o <<".">> \o DecimalDigits(rem_x)

\* Mutant of eq: a hand-written comparison of the whole units only.
eq_whole_units(self, other) ==
    BigDivSmall(self.as_int, 100).q = BigDivSmall(other.as_int, 100).q

\* The derived PartialEq: field by field.
eq(self, other) == self.as_int = other.as_int

\* The derived Hash: the bytes of as_int written to the hasher.
hash(self) == self.as_int

\* ------------------------------------------------------------ inputs
\* Characters of the texts drawn exhaustively.
Alphabet == {"0", "1", "5", ".", "-", "+", "a"}

ShortTexts == UNION {[1..n -> Alphabet] : n \in 0..MaxLen}

\* Constructor inputs of the composed specification: the texts of the
\* unit tests and texts at the edges of the u32 and f32 ranges.
Literals ==
    { <<"4", "4", ".", "1", "2">>,
      <<"4", "5", ".", "8", "0">>,
      <<"a", "s", "d", "a">>,
      <<"1", ".", "5", "0">>,
      <<"1", ".", "5">>,
      <<"4", "4", ".", "0", "1">>,
      <<"4", "4", ".", "1", "0">>,
      <<"3", "0", "0", "0", "0", "0", "0", "0">>,
      <<"4", "2", "9", "4", "9", "6", "7", "2", ".", "9", "6">> }

\* Further inputs of the constructor specification.
ParseInputs ==
    ShortTexts \cup Literals \cup
    { <<"+", "1", ".", "5">>,
      <<"-", "4", "4", ".", "1", "2">>,
      <<"6", "5", "5", "3", "6", ".", "0", "2">>,
      <<"1", "6", "7", "7", "7", "2", ".", "1", "7">>,
      <<"4", "2", "9", "4", "9", "6", "7", "2", ".", "9", "5">>,
      <<"2", "1", "4", "7", "4", "8", "3", "6", ".", "4", "8">>,
      <<"4", "x", ".", "1", "2">>,
      <<"4", "4", ",", "1", "2">> }

\* Multipliers of the composed specification, as u32.
Multipliers == {U32(0), U32(1), U32(10), U32(1000000)}

\* Cent counts of the operands of the law specification.
LawCents == {U32(0), U32(4412), U32(4580), U32(2147483647), U32Max}

\* ------------------------------------------------------------- state
VARIABLES
    overflow_checks,  \* the build: TRUE panics on integer overflow, FALSE wraps
    regs,             \* the caller's bindings: <<>> unbound or moved, else <<Amount>>
    shown,            \* the text last displayed of each binding, <<>> when stale
    origin,           \* the text a binding was constructed from, <<>> otherwise
    last,             \* the last call: operation, operands and outcome
    panicked,         \* the calling context was terminated by a panic
    moved,            \* the bindings moved into a call
    nops,             \* number of += and *= applied
    given             \* the operands drawn for the law specification

vars == <<overflow_checks, regs, shown, origin, last, panicked, moved, nops, given>>

NoCall ==
    [op |-> "none", reg |-> "", input |-> <<>>, before |-> <<>>, arg |-> <<>>,
     failed |-> FALSE, equal |-> FALSE, fed |-> <<>>]

Call(op, reg) == [NoCall EXCEPT !.op = op, !.reg = reg]

Bound(r) == Len(regs[r]) = 1

\* A binding is declared once: not while it holds a value, nor after a move.
Free(r) == ~Bound(r) /\ r \notin moved

\* let r = Amount::new();
New(r) ==
    /\ ~panicked /\ Free(r)
    /\ regs' = [regs EXCEPT ![r] = <<new>>]
    /\ origin' = [origin EXCEPT ![r] = <<>>]
    /\ shown' = [shown EXCEPT ![r] = <<>>]
    /\ last' = Call("new", r)
    /\ UNCHANGED <<overflow_checks, panicked, moved, nops, given>>

\* let r = Amount::new_from_str(s);
NewFromStr(r, s) ==
    LET res == new_from_str(s)
    IN  /\ ~panicked /\ Free(r)
        /\ regs' = [regs EXCEPT ![r] = IF res.panic THEN <<>> ELSE <<res.value>>]
        /\ origin' = [origin EXCEPT ![r] = IF res.panic THEN <<>> ELSE s]
        /\ shown' = [shown EXCEPT ![r] = <<>>]
        /\ last' = [Call("new_from_str", r) EXCEPT !.input = s, !.failed = res.panic]
        /\ panicked' = res.panic
        /\ UNCHANGED <<overflow_checks, moved, nops, given>>

\* dst += src;  src is moved into the call.
AddAssign(dst, src) ==
    LET res == add_assign(regs[dst][1], regs[src][1], overflow_checks)
    IN  /\ ~panicked /\ dst # src /\ Bound(dst) /\ Bound(src)
        /\ regs' = [regs EXCEPT ![dst] = <<res.value>>, ![src] = <<>>]
        /\ origin' = [origin EXCEPT ![dst] = <<>>, ![src] = <<>>]
        /\ shown' = [shown EXCEPT ![dst] = <<>>, ![src] = <<>>]
        /\ last' = [Call("add_assign", dst) EXCEPT !.before = regs[dst][1].as_int,
                                                    !.arg = regs[src][1].as_int,
                                                    !.failed = res.panic]
        /\ panicked' = res.panic
        /\ moved' = moved \cup {src}
        /\ nops' = nops + 1
        /\ UNCHANGED <<overflow_checks, given>>

\* r *= m;
MulAssign(r, m) ==
    LET res == mul_assign(regs[r][1], m, overflow_checks)
    IN  /\ ~panicked /\ Bound(r)
        /\ regs' = [regs EXCEPT ![r] = <<res.value>>]
        /\ origin' = [origin EXCEPT ![r] = <<>>]
        /\ shown' = [shown EXCEPT ![r] = <<>>]
        /\ last' = [Call("mul_assign", r) EXCEPT !.before = regs[r][1].as_int,
                                                  !.arg = m,
                                                  !.failed = res.panic]
        /\ panicked' = res.panic
        /\ nops' = nops + 1
        /\ UNCHANGED <<overflow_checks, moved, given>>

\* format!("{}", r)
Fmt(r) ==
    /\ ~panicked /\ Bound(r)
    /\ shown' = [shown EXCEPT ![r] = fmt(regs[r][1])]
    /\ last' = [Call("fmt", r) EXCEPT !.before = regs[r][1].as_int]
    /\ UNCHANGED <<overflow_checks, regs, origin, panicked, moved, nops, given>>

\* a == b, and both fed to a hasher.
Compare(a, b) ==
    /\ ~panicked /\ a # b /\ Bound(a) /\ Bound(b)
    /\ last' = [Call("eq", a) EXCEPT !.before = regs[a][1].as_int,
                                      !.arg = regs[b][1].as_int,
                                      !.equal = eq(regs[a][1], regs[b][1]),
                                      !.fed = <<hash(regs[a][1]), hash(regs[b][1])>>]
    /\ UNCHANGED <<overflow_checks, regs, shown, origin, panicked, moved, nops, given>>

\* ------------------------------------------- composed specification
\* Two bindings, every operation, inputs from Literals and Multipliers.
Regs == {"x", "y"}

Unbound(R) == [r \in R |-> <<>>]

Init ==
    /\ overflow_checks \in BOOLEAN
    /\ regs = Unbound(Regs)
    /\ shown = Unbound(Regs)
    /\ origin = Unbound(Regs)
    /\ last = NoCall
    /\ panicked = FALSE
    /\ moved = {}
    /\ nops = 0
    /\ given = <<>>

Next ==
    \/ \E r \in Regs : New(r)
    \/ \E r \in Regs, s \in Literals : NewFromStr(r, s)
    \/ \E dst \in Regs, src \in Regs : nops < MaxOps /\ AddAssign(dst, src)
    \/ \E r \in Regs, m \in Multipliers : nops < MaxOps /\ MulAssign(r, m)
    \/ \E r \in Regs : Fmt(r)
    \/ \E a \in Regs, b \in Regs : Compare(a, b)

Spec == Init /\ [][Next]_vars

\* ---------------------------------------- constructor specification
\* One binding, constructed from every text of ParseInputs, displayed.
InitParse ==
    /\ overflow_checks \in BOOLEAN
    /\ regs = Unbound({"x"})
    /\ shown = Unbound({"x"})
    /\ origin = Unbound({"x"})
    /\ last = NoCall
    /\ panicked = FALSE
    /\ moved = {}
    /\ nops = 0
    /\ given = <<>>

NextParse ==
    \/ New("x")
    \/ \E s \in ParseInputs : NewFromStr("x", s)
    \/ Fmt("x")

SpecParse == InitParse /\ [][NextParse]_vars

\* ------------------------------------------------ law specification
\* Operands a, b, c drawn from LawCents, held in fresh Amounts (Amount is
\* not Clone, so each order of summation gets its own):
\*   la += lb; la += lc        (a + b) + c
\*   rb += rc; ra += rb        a + (b + c)
\*   pa += pb  and  qb += qa   a + b  and  b + a
LawRegs == {"la", "lb", "lc", "ra", "rb", "rc", "pa", "pb", "qa", "qb"}

Holding(a, b, c) ==
    [r \in LawRegs |->
        IF r \in {"la", "ra", "pa", "qa"} THEN <<[as_int |-> a]>>
        ELSE IF r \in {"lb", "rb", "pb", "qb"} THEN <<[as_int |-> b]>>
        ELSE <<[as_int |-> c]>>]

InitLaws ==
    /\ overflow_checks \in BOOLEAN
    /\ \E a \in LawCents, b \in LawCents, c \in LawCents :
          /\ regs = Holding(a, b, c)
          /\ given = <<a, b, c>>
    /\ shown = Unbound(LawRegs)
    /\ origin = Unbound(LawRegs)
    /\ last = NoCall
    /\ panicked = FALSE
    /\ moved = {}
    /\ nops = 0

NextLaws ==
    \/ AddAssign("la", "lb")
    \/ "lb" \in moved /\ AddAssign("la", "lc")
    \/ AddAssign("rb", "rc")
    \/ "rc" \in moved /\ AddAssign("ra", "rb")
    \/ AddAssign("pa", "pb")
    \/ AddAssign("qb", "qa")

SpecLaws == InitLaws /\ [][NextLaws]_vars

\* ------------------------------------------------------------ claims
\* The value 100 times a parsed decimal of at most two fraction digits,
\* exact, as a Big.
ExactCents(d) ==
    BigAdd(BigMulSmall(FromInt(DigitsToInt(d.int)), 100),
           FromInt(DigitsToInt(d.frac) * 10 ^ (2 - Len(d.frac))))

\* The magnitude of a parsed decimal (of at most seven fraction digits)
\* times 100, rounded to the nearest integer, halves up, as a Big.
ScaledRounded(d) ==
    LET unit  == 10 ^ Len(d.frac)
        f100  == DigitsToInt(d.frac) * 100
        part  == IF 2 * (f100 % unit) >= unit THEN f100 \div unit + 1 ELSE f100 \div unit
    IN  BigAdd(BigMulSmall(FromInt(DigitsToInt(d.int)), 100), FromInt(part))

\* A text is a decimal numeral as "{}" writes one: digits only, and no
\* leading zero but for "0" itself.
IsNumeral(t) == Len(t) >= 1 /\ AllDigits(t) /\ (Len(t) > 1 => t[1] # "0")

\* The cent count a displayed text stands for, its fraction read as a
\* count of hundredths; <<>> when the text is not "<numeral>.<numeral>".
RenderedCents(text) ==
    LET dots  == {i \in 1..Len(text) : text[i] = "."}
        dot   == CHOOSE i \in dots : TRUE
        whole == SubSeq(text, 1, dot - 1)
        part  == SubSeq(text, dot + 1, Len(text))
    IN  IF Cardinality(dots) = 1 /\ IsNumeral(whole) /\ IsNumeral(part) /\ Len(part) <= 2
        THEN <<ToU32(BigAdd(BigMulSmall(FromInt(DigitsToInt(whole)), 100),
                            FromInt(DigitsToInt(part))))>>
        ELSE <<>>

Constructed == last.op = "new_from_str"

\* C1: for every valid non-negative decimal text of at most two fraction
\* digits whose value times 100 fits u32, new_from_str stores exactly 100
\* times the value, and the displayed text reads back as that value.
C1_ExactCents ==
    LET d == Decimal(last.input)
    IN  (Constructed /\ d.valid /\ ~d.neg /\ Len(d.frac) <= 2 /\ FitsU32(ExactCents(d)))
        => /\ ~last.failed /\ Bound("x")
           /\ regs["x"][1].as_int = ToU32(ExactCents(d))
           /\ shown["x"] # <<>> => RenderedCents(shown["x"]) = <<ToU32(ExactCents(d))>>

C3_RangeFailures ==
    LET d == Decimal(last.input)
    IN  (Constructed /\ d.valid)
        => /\ (d.neg /\ (DigitsToInt(d.int) # 0 \/ DigitsToInt(d.frac) # 0))
                => last.failed
           /\ ~FitsU32(ScaledRounded(d)) => last.failed
           /\ ~last.failed => (~d.neg /\ regs["x"][1].as_int = ToU32(ScaledRounded(d)))

\* C4: a += b stores exactly a + b when the sum fits u32, and fails when
\* it does not; it never stores another value.
C4_AddExactOrFails ==
    last.op = "add_assign" =>
        LET sum == BigAdd(last.before, last.arg)
        IN  IF FitsU32(sum)
            THEN ~last.failed /\ regs[last.reg][1].as_int = ToU32(sum)
            ELSE last.failed

\* C5: for operands whose total fits u32, (a + b) + c and a + (b + c)
\* leave the same cents, and a + b and b + a leave the same cents; no sum
\* on the way fails.
C5_AccumulateLaws ==
    (given # <<>> /\ FitsU32(BigAdd(BigAdd(given[1], given[2]), given[3])))
    => /\ ~panicked
       /\ {"lb", "lc", "rb", "rc"} \subseteq moved
            => regs["la"][1].as_int = regs["ra"][1].as_int
       /\ {"pb", "qa"} \subseteq moved
            => regs["pa"][1].as_int = regs["qb"][1].as_int

C5_Witness ==
    /\ given = <<U32(4412), U32(4580), U32(2147483647)>>
    /\ moved = {"lb", "lc", "rb", "rc", "pb", "qa"}
    /\ ~panicked
    /\ regs["la"][1].as_int = regs["ra"][1].as_int
    /\ regs["pa"][1].as_int = U32(8992)

\* C6: a *= m stores exactly a * m when the product fits u32, and fails
\* when it does not; it never stores a wrapped or truncated product.
C6_MulExactOrFails ==
    last.op = "mul_assign" =>
        LET product == BigMul(last.before, last.arg)
        IN  IF FitsU32(product)
            THEN ~last.failed /\ regs[last.reg][1].as_int = ToU32(product)
            ELSE last.failed

\* C7: on every reachable Amount, *= 0 succeeds and leaves the zero Amount
\* of Amount::new, and *= 1 succeeds and leaves the cents unchanged.
C7_ScaleZeroAndOne ==
    last.op = "mul_assign" =>
        /\ last.arg = U32(0) =>
              ~last.failed /\ ~panicked /\ eq(regs[last.reg][1], new)
        /\ last.arg = U32(1) =>
              ~last.failed /\ ~panicked /\ regs[last.reg][1].as_int = last.before

C7_Witness ==
    /\ last.op = "mul_assign" /\ last.arg = U32(0) /\ last.before = U32(8992)
    /\ nops = 2 /\ overflow_checks /\ ~panicked
    /\ regs[last.reg][1].as_int = U32(0)

\* C8: displaying never fails and leaves the cents unchanged; the text is
\* the numeral of cents / 100, a dot, and the numeral of cents % 100
\* without padding; Amount::new has cents 0 and displays "0.0", and cents
\* 4401 display "44.1".
C8_Render ==
    /\ last.op = "new" => regs[last.reg][1].as_int = U32(0)
    /\ last.op = "fmt" => ~panicked /\ regs[last.reg][1].as_int = last.before
    /\ \A r \in DOMAIN regs :
          (Bound(r) /\ shown[r] # <<>>) =>
              /\ RenderedCents(shown[r]) = <<regs[r][1].as_int>>
              /\ regs[r][1].as_int = U32(0) => shown[r] = <<"0", ".", "0">>
              /\ regs[r][1].as_int = U32(4401) => shown[r] = <<"4", "4", ".", "1">>

C8_Witness ==
    /\ last.op = "fmt" /\ Bound("x") /\ Bound("y")
    /\ regs["x"][1].as_int = U32(4401) /\ shown["x"] = <<"4", "4", ".", "1">>
    /\ origin["y"] = <<>> /\ regs["y"][1].as_int = U32(0) /\ shown["y"] = <<"0", ".", "0">>

\* C9: two Amounts are equal exactly when their cents are, and equal
\* Amounts feed a hasher the same bytes; Amounts constructed from "1.50"
\* and from "1.5" both hold 150 cents and are equal.
C9_EqualityByCents ==
    /\ last.op = "eq" =>
          /\ last.equal <=> (regs["x"][1].as_int = regs["y"][1].as_int)
          /\ last.equal => last.fed[1] = last.fed[2]
    /\ (Bound("x") /\ Bound("y") /\ origin["x"] = <<"1", ".", "5", "0">> /\ origin["y"] = <<"1", ".", "5">>) =>
          /\ regs["x"][1].as_int = U32(150)
          /\ regs["y"][1].as_int = U32(150)
          /\ eq(regs["x"][1], regs["y"][1])
          /\ last.op = "eq" => last.equal

C9_Witness ==
    /\ last.op = "eq" /\ last.equal /\ last.fed[1] = last.fed[2]
    /\ origin["x"] = <<"1", ".", "5", "0">> /\ origin["y"] = <<"1", ".", "5">>

\* C10: Amounts of different cents display different texts, although the
\* fraction is not padded: 4401 displays "44.1" and 4410 displays "44.10".
C10_RenderInjective ==
    (Bound("x") /\ Bound("y") /\ shown["x"] # <<>> /\ shown["y"] # <<>>) =>
        /\ regs["x"][1].as_int # regs["y"][1].as_int => shown["x"] # shown["y"]
        /\ (regs["x"][1].as_int = U32(4401) /\ regs["y"][1].as_int = U32(4410))
              => (shown["x"] = <<"4", "4", ".", "1">> /\ shown["y"] = <<"4", "4", ".", "1", "0">>)

C10_Witness ==
    /\ Bound("x") /\ Bound("y")
    /\ regs["x"][1].as_int = U32(4401) /\ regs["y"][1].as_int = U32(4410)
    /\ shown["x"] = <<"4", "4", ".", "1">> /\ shown["y"] = <<"4", "4", ".", "1", "0">>

====
